---- MODULE Spec2Model ----
(***************************************************************************)
(* Model of the elysia-supabase plugin: the two guards `supabase` and      *)
(* `anon_supabase`, the process environment they default their arguments   *)
(* from, and the requests the resolve handlers of a guard handle.          *)
(*                                                                         *)
(* JavaScript values are tagged records, so that `undefined`, `null`,      *)
(* strings and objects can be told apart and compared:                     *)
(*   undefined, null, S("text"), Obj(key :> value @@ ...)                  *)
(***************************************************************************)
EXTENDS Integers, Sequences, FiniteSets, TLC

\* ------------------------------------------------------------------ bounds
\* number of requests the guard handles in one behaviour
MaxRequests == 2

\* ------------------------------------------------------- JavaScript values
undefined == [t |-> "undefined"]
null == [t |-> "null"]
S(s) == [t |-> "string", v |-> s]
Obj(f) == [t |-> "object", f |-> f]
\* the object literal {}
EmptyFields == [k \in {} |-> undefined]

\* JavaScript truthiness, as tested by `!x` and `if (x)`
Truthy(x) ==
    \/ x.t = "object"
    \/ x.t = "string" /\ x.v # ""

\* property read o.k (undefined when the key is absent)
Get(o, k) == IF o.t = "object" /\ k \in DOMAIN o.f THEN o.f[k] ELSE undefined

\* optional chaining o?.k
OptGet(o, k) == IF o.t \in {"undefined", "null"} THEN undefined ELSE Get(o, k)

\* the own properties an object spread ...o copies (none for undefined/null)
Spread(o) == IF o.t = "object" THEN o.f ELSE EmptyFields

\* ------------------------------------------------------------ input domains
EnvNames == {"SUPABASE_URL", "SUPABASE_ANON_KEY"}
EnvValues(name) ==
    IF name = "SUPABASE_URL"
    THEN {undefined, S("https://env1.test"), S("https://env2.test")}
    ELSE {undefined, S("env-anon-key")}

UrlArgs == {undefined, S(""), S("https://x.test")}
KeyArgs == {undefined, S(""), S("anon-key")}

CtorAuthorization == S("Bearer ctor")
OptionsArgs ==
    { undefined,
      Obj("auth" :> S("auth-cfg")),
      Obj("global" :> Obj("fetch" :> S("fetch-fn"))),
      Obj("global" :> Obj("headers" :> Obj("Authorization" :> CtorAuthorization))),
      Obj(("db" :> S("db-cfg")) @@
          ("global" :> Obj(("fetch" :> S("fetch-fn")) @@
                           ("headers" :> Obj(("Authorization" :> CtorAuthorization) @@
                                             ("X-Custom" :> S("custom"))))))) }

\* what request.headers.get("Authorization") can return
AuthorizationHeaders == {null, S(""), S("Bearer A"), S("Bearer B")}

RequestIds == 1..MaxRequests

VARIABLES env, guard, requests
vars == <<env, guard, requests>>

\* ------------------------------------------------------------------ helpers
NoGuard == [kind |-> "none"]

\* the record of a handler invocation that has not started: the header value
\* read, the locals `supabase` and `resp`, the number of getUser calls, the
\* value returned (an error(...) rejection or the context), and the
\* positions the handler has been at: CheckingConfig (the two configuration
\* tests), CheckingHeader (the header read and its test), BuildingClient
\* (createClient), ValidatingIdentity (the await), then how it ended
IdleRequest ==
    [state |-> "Idle", Authorization |-> undefined, supabase |-> undefined,
     lookups |-> 0, resp |-> undefined, rejection |-> undefined,
     context |-> undefined, path |-> <<>>]

\* error(status, message) of the handler context
error(status, message) == [t |-> "error", status |-> status, message |-> message]

\* createClient(supabase_url, supabase_anon_key, options)
createClient(supabase_url, supabase_anon_key, options) ==
    [t |-> "client", supabase_url |-> supabase_url,
     supabase_anon_key |-> supabase_anon_key, options |-> options]

\* variant of DefaultParam: the environment value wins when it is set
DefaultParam_env_first(arg, envValue) ==
    IF envValue # undefined THEN envValue ELSE arg

\* variant of DefaultParam: `arg || process.env.NAME`, the environment value
\* replaces every falsy argument
DefaultParam_falsy(arg, envValue) == IF Truthy(arg) THEN arg ELSE envValue

\* default value of a destructured parameter: `name = process.env.NAME`
DefaultParam(arg, envValue) == IF arg = undefined THEN envValue ELSE arg

\* variant of closure_supabase_url: the handler reads process.env itself when
\* the argument was omitted
closure_supabase_url_reread(g) ==
    IF g.args.supabase_url = undefined
    THEN env["SUPABASE_URL"] ELSE g.args.supabase_url

\* the handler's reading of the closure variables
closure_supabase_url(g) == g.supabase_url
closure_supabase_anon_key(g) == g.supabase_anon_key

\* variant of ClientOptions: the caller's headers are spread after the
\* request's Authorization, `headers: {Authorization, ...options?.global?.headers}`
ClientOptions_caller_headers_last(options, Authorization) ==
    Obj(("global" :> Obj(("headers" :>
                              Obj(Spread(OptGet(OptGet(options, "global"), "headers"))
                                  @@ ("Authorization" :> Authorization)))
                         @@ Spread(OptGet(options, "global"))))
        @@ Spread(options))

\* variant of ClientOptions: `global: { headers: { Authorization } }` without
\* the spread of the caller's global options
ClientOptions_global_replaced(options, Authorization) ==
    Obj(("global" :> Obj("headers" :> Obj("Authorization" :> Authorization)))
        @@ Spread(options))

\* the options object literal handed to createClient
ClientOptions(options, Authorization) ==
    Obj(("global" :> Obj(("headers" :> Obj("Authorization" :> Authorization))
                         @@ Spread(OptGet(options, "global"))))
        @@ Spread(options))

\* the Authorization header a client sends: options.global.headers.Authorization
ClientAuthorization(client) ==
    Get(Get(Get(client.options, "global"), "headers"), "Authorization")

\* --------------------------------------------------- the backend's answers
\* the user the backend holds for a credential
UserOf(Authorization) ==
    Obj("email" :> S(CASE Authorization = S("Bearer A") -> "a@b.com"
                       [] Authorization = S("Bearer B") -> "b@b.com"
                       [] OTHER -> "ctor@b.com"))

AuthError == Obj("name" :> S("AuthError"))

\* the ways `await supabase.auth.getUser()` can settle for a client: the
\* promise is fulfilled with a UserResponse ({data: {user}, error: null} or
\* {data: {user: null}, error}), or it is rejected
getUser(client) ==
    LET Authorization == ClientAuthorization(client)
    IN  { [t |-> "response", settled |-> "fulfilled", error |-> null,
           data |-> [user |-> UserOf(Authorization)]],
          [t |-> "response", settled |-> "fulfilled", error |-> AuthError,
           data |-> [user |-> null]],
          [t |-> "response", settled |-> "rejected", error |-> undefined,
           data |-> [user |-> undefined]] }

\* ------------------------------------------------ the two resolve handlers
\* variant of supabase_handler: the access key is checked before the endpoint
supabase_handler_key_first(g, Authorization) ==
    IF ~Truthy(closure_supabase_anon_key(g))
    THEN [IdleRequest EXCEPT !.state = "Rejected",
              !.path = <<"CheckingConfig", "Rejected">>,
              !.Authorization = Authorization,
              !.rejection = error(500, S("SUPABASE_ANON_KEY is not set"))]
    ELSE IF ~Truthy(closure_supabase_url(g))
    THEN [IdleRequest EXCEPT !.state = "Rejected",
              !.path = <<"CheckingConfig", "Rejected">>,
              !.Authorization = Authorization,
              !.rejection = error(500, S("SUPABASE_URL is not set"))]
    ELSE IF ~Truthy(Authorization)
    THEN [IdleRequest EXCEPT !.state = "Rejected",
              !.path = <<"CheckingConfig", "CheckingHeader", "Rejected">>,
              !.Authorization = Authorization,
              !.rejection = error(401, S("Authorization header is missing"))]
    ELSE [IdleRequest EXCEPT !.state = "ValidatingIdentity",
              !.path = <<"CheckingConfig", "CheckingHeader", "BuildingClient",
                        "ValidatingIdentity">>,
              !.Authorization = Authorization,
              !.supabase = createClient(closure_supabase_url(g),
                                        closure_supabase_anon_key(g),
                                        ClientOptions(g.options, Authorization)),
              !.lookups = 1]

\* variant of supabase_handler: the client is kept in a variable shared by the
\* requests and built only by the first request that needs one
supabase_handler_shared_client(g, Authorization) ==
    IF ~Truthy(closure_supabase_url(g))
    THEN [IdleRequest EXCEPT !.state = "Rejected",
              !.path = <<"CheckingConfig", "Rejected">>,
              !.Authorization = Authorization,
              !.rejection = error(500, S("SUPABASE_URL is not set"))]
    ELSE IF ~Truthy(closure_supabase_anon_key(g))
    THEN [IdleRequest EXCEPT !.state = "Rejected",
              !.path = <<"CheckingConfig", "Rejected">>,
              !.Authorization = Authorization,
              !.rejection = error(500, S("SUPABASE_ANON_KEY is not set"))]
    ELSE IF ~Truthy(Authorization)
    THEN [IdleRequest EXCEPT !.state = "Rejected",
              !.path = <<"CheckingConfig", "CheckingHeader", "Rejected">>,
              !.Authorization = Authorization,
              !.rejection = error(401, S("Authorization header is missing"))]
    ELSE [IdleRequest EXCEPT !.state = "ValidatingIdentity",
              !.path = <<"CheckingConfig", "CheckingHeader", "BuildingClient",
                        "ValidatingIdentity">>,
              !.Authorization = Authorization,
              !.supabase =
                  IF \E q \in RequestIds : requests[q].supabase # undefined
                  THEN requests[CHOOSE q \in RequestIds :
                                    requests[q].supabase # undefined].supabase
                  ELSE createClient(closure_supabase_url(g),
                                    closure_supabase_anon_key(g),
                                    ClientOptions(g.options, Authorization)),
              !.lookups = 1]

\* variant of supabase_handler: a credential that an earlier request validated
\* is accepted from a cache, without client and without lookup
supabase_handler_cached_identity(g, Authorization) ==
    IF ~Truthy(closure_supabase_url(g))
    THEN [IdleRequest EXCEPT !.state = "Rejected",
              !.path = <<"CheckingConfig", "Rejected">>,
              !.Authorization = Authorization,
              !.rejection = error(500, S("SUPABASE_URL is not set"))]
    ELSE IF ~Truthy(closure_supabase_anon_key(g))
    THEN [IdleRequest EXCEPT !.state = "Rejected",
              !.path = <<"CheckingConfig", "Rejected">>,
              !.Authorization = Authorization,
              !.rejection = error(500, S("SUPABASE_ANON_KEY is not set"))]
    ELSE IF ~Truthy(Authorization)
    THEN [IdleRequest EXCEPT !.state = "Rejected",
              !.path = <<"CheckingConfig", "CheckingHeader", "Rejected">>,
              !.Authorization = Authorization,
              !.rejection = error(401, S("Authorization header is missing"))]
    ELSE IF \E q \in RequestIds : /\ requests[q].state = "Succeeded"
                                  /\ requests[q].Authorization = Authorization
    THEN [IdleRequest EXCEPT !.state = "Succeeded",
              !.path = <<"CheckingConfig", "CheckingHeader", "Succeeded">>,
              !.Authorization = Authorization,
              !.context =
                  requests[CHOOSE q \in RequestIds :
                               /\ requests[q].state = "Succeeded"
                               /\ requests[q].Authorization = Authorization].context]
    ELSE [IdleRequest EXCEPT !.state = "ValidatingIdentity",
              !.path = <<"CheckingConfig", "CheckingHeader", "BuildingClient",
                        "ValidatingIdentity">>,
              !.Authorization = Authorization,
              !.supabase = createClient(closure_supabase_url(g),
                                        closure_supabase_anon_key(g),
                                        ClientOptions(g.options, Authorization)),
              !.lookups = 1]

\* `supabase`: the handler from its start to the await (or an early return)
supabase_handler(g, Authorization) ==
    IF ~Truthy(closure_supabase_url(g))
    THEN [IdleRequest EXCEPT !.state = "Rejected",
              !.path = <<"CheckingConfig", "Rejected">>,
              !.Authorization = Authorization,
              !.rejection = error(500, S("SUPABASE_URL is not set"))]
    ELSE IF ~Truthy(closure_supabase_anon_key(g))
    THEN [IdleRequest EXCEPT !.state = "Rejected",
              !.path = <<"CheckingConfig", "Rejected">>,
              !.Authorization = Authorization,
              !.rejection = error(500, S("SUPABASE_ANON_KEY is not set"))]
    ELSE IF ~Truthy(Authorization)
    THEN [IdleRequest EXCEPT !.state = "Rejected",
              !.path = <<"CheckingConfig", "CheckingHeader", "Rejected">>,
              !.Authorization = Authorization,
              !.rejection = error(401, S("Authorization header is missing"))]
    ELSE [IdleRequest EXCEPT !.state = "ValidatingIdentity",
              !.path = <<"CheckingConfig", "CheckingHeader", "BuildingClient",
                        "ValidatingIdentity">>,
              !.Authorization = Authorization,
              !.supabase = createClient(closure_supabase_url(g),
                                        closure_supabase_anon_key(g),
                                        ClientOptions(g.options, Authorization)),
              !.lookups = 1]

\* variant of supabase_continuation: the `if (resp.error)` return is missing
supabase_continuation_unchecked(req, resp) ==
    IF resp.settled = "rejected"
    THEN [req EXCEPT !.state = "Thrown", !.resp = resp,
              !.path = Append(req.path, "Thrown")]
    ELSE [req EXCEPT !.state = "Succeeded", !.resp = resp,
              !.path = Append(req.path, "Succeeded"),
              !.context = Obj(("supabase" :> req.supabase) @@
                              ("user" :> resp.data.user))]

\* variant of supabase_continuation: the test is inverted, `if (!resp.error)`
supabase_continuation_inverted(req, resp) ==
    IF resp.settled = "rejected"
    THEN [req EXCEPT !.state = "Thrown", !.resp = resp,
              !.path = Append(req.path, "Thrown")]
    ELSE IF ~Truthy(resp.error)
    THEN [req EXCEPT !.state = "Rejected", !.resp = resp,
              !.path = Append(req.path, "Rejected"),
              !.rejection = error(401, undefined)]
    ELSE [req EXCEPT !.state = "Succeeded", !.resp = resp,
              !.path = Append(req.path, "Succeeded"),
              !.context = Obj(("supabase" :> req.supabase) @@
                              ("user" :> resp.data.user))]

\* variant of supabase_continuation: the await is inside a try whose catch
\* returns error(401)
supabase_continuation_caught(req, resp) ==
    IF resp.settled = "rejected" \/ Truthy(resp.error)
    THEN [req EXCEPT !.state = "Rejected", !.resp = resp,
              !.path = Append(req.path, "Rejected"),
              !.rejection = error(401, undefined)]
    ELSE [req EXCEPT !.state = "Succeeded", !.resp = resp,
              !.path = Append(req.path, "Succeeded"),
              !.context = Obj(("supabase" :> req.supabase) @@
                              ("user" :> resp.data.user))]

\* variant of supabase_continuation: a lookup answered with an error is made
\* once more before the request is rejected
supabase_continuation_retry(req, resp) ==
    IF resp.settled = "rejected"
    THEN [req EXCEPT !.state = "Thrown", !.resp = resp,
              !.path = Append(req.path, "Thrown")]
    ELSE IF Truthy(resp.error) /\ req.lookups < 2
    THEN [req EXCEPT !.lookups = req.lookups + 1]
    ELSE IF Truthy(resp.error)
    THEN [req EXCEPT !.state = "Rejected", !.resp = resp,
              !.path = Append(req.path, "Rejected"),
              !.rejection = error(401, undefined)]
    ELSE [req EXCEPT !.state = "Succeeded", !.resp = resp,
              !.path = Append(req.path, "Succeeded"),
              !.context = Obj(("supabase" :> req.supabase) @@
                              ("user" :> resp.data.user))]

\* `supabase`: the handler after the await
supabase_continuation(req, resp) ==
    IF resp.settled = "rejected"
    THEN [req EXCEPT !.state = "Thrown", !.resp = resp,
              !.path = Append(req.path, "Thrown")]
    ELSE IF Truthy(resp.error)
    THEN [req EXCEPT !.state = "Rejected", !.resp = resp,
              !.path = Append(req.path, "Rejected"),
              !.rejection = error(401, undefined)]
    ELSE [req EXCEPT !.state = "Succeeded", !.resp = resp,
              !.path = Append(req.path, "Succeeded"),
              !.context = Obj(("supabase" :> req.supabase) @@
                              ("user" :> resp.data.user))]

\* variant of anon_supabase_handler: the header check is missing
anon_supabase_handler_no_header_check(g, Authorization) ==
    IF ~Truthy(closure_supabase_url(g))
    THEN [IdleRequest EXCEPT !.state = "Rejected",
              !.path = <<"CheckingConfig", "Rejected">>,
              !.Authorization = Authorization,
              !.rejection = error(500, S("SUPABASE_URL is not set"))]
    ELSE IF ~Truthy(closure_supabase_anon_key(g))
    THEN [IdleRequest EXCEPT !.state = "Rejected",
              !.path = <<"CheckingConfig", "Rejected">>,
              !.Authorization = Authorization,
              !.rejection = error(500, S("SUPABASE_ANON_KEY is not set"))]
    ELSE [IdleRequest EXCEPT !.state = "ValidatingIdentity",
              !.path = <<"CheckingConfig", "CheckingHeader", "BuildingClient",
                        "ValidatingIdentity">>,
              !.Authorization = Authorization,
              !.supabase = createClient(closure_supabase_url(g),
                                        closure_supabase_anon_key(g),
                                        ClientOptions(g.options, Authorization)),
              !.lookups = 1]

\* variant of anon_supabase_handler: a missing header is reported with another
\* message than in `supabase`
anon_supabase_handler_other_message(g, Authorization) ==
    IF ~Truthy(closure_supabase_url(g))
    THEN [IdleRequest EXCEPT !.state = "Rejected",
              !.path = <<"CheckingConfig", "Rejected">>,
              !.Authorization = Authorization,
              !.rejection = error(500, S("SUPABASE_URL is not set"))]
    ELSE IF ~Truthy(closure_supabase_anon_key(g))
    THEN [IdleRequest EXCEPT !.state = "Rejected",
              !.path = <<"CheckingConfig", "Rejected">>,
              !.Authorization = Authorization,
              !.rejection = error(500, S("SUPABASE_ANON_KEY is not set"))]
    ELSE IF ~Truthy(Authorization)
    THEN [IdleRequest EXCEPT !.state = "Rejected",
              !.path = <<"CheckingConfig", "CheckingHeader", "Rejected">>,
              !.Authorization = Authorization,
              !.rejection = error(401, S("Unauthorized"))]
    ELSE [IdleRequest EXCEPT !.state = "ValidatingIdentity",
              !.path = <<"CheckingConfig", "CheckingHeader", "BuildingClient",
                        "ValidatingIdentity">>,
              !.Authorization = Authorization,
              !.supabase = createClient(closure_supabase_url(g),
                                        closure_supabase_anon_key(g),
                                        ClientOptions(g.options, Authorization)),
              !.lookups = 1]

\* `anon_supabase`: the handler from its start to the await
anon_supabase_handler(g, Authorization) ==
    IF ~Truthy(closure_supabase_url(g))
    THEN [IdleRequest EXCEPT !.state = "Rejected",
              !.path = <<"CheckingConfig", "Rejected">>,
              !.Authorization = Authorization,
              !.rejection = error(500, S("SUPABASE_URL is not set"))]
    ELSE IF ~Truthy(closure_supabase_anon_key(g))
    THEN [IdleRequest EXCEPT !.state = "Rejected",
              !.path = <<"CheckingConfig", "Rejected">>,
              !.Authorization = Authorization,
              !.rejection = error(500, S("SUPABASE_ANON_KEY is not set"))]
    ELSE IF ~Truthy(Authorization)
    THEN [IdleRequest EXCEPT !.state = "Rejected",
              !.path = <<"CheckingConfig", "CheckingHeader", "Rejected">>,
              !.Authorization = Authorization,
              !.rejection = error(401, S("Authorization header is missing"))]
    ELSE [IdleRequest EXCEPT !.state = "ValidatingIdentity",
              !.path = <<"CheckingConfig", "CheckingHeader", "BuildingClient",
                        "ValidatingIdentity">>,
              !.Authorization = Authorization,
              !.supabase = createClient(closure_supabase_url(g),
                                        closure_supabase_anon_key(g),
                                        ClientOptions(g.options, Authorization)),
              !.lookups = 1]

\* variant of anon_supabase_continuation: the error is inspected as in `supabase`
anon_supabase_continuation_checked(req, resp) ==
    IF resp.settled = "rejected"
    THEN [req EXCEPT !.state = "Thrown", !.resp = resp,
              !.path = Append(req.path, "Thrown")]
    ELSE IF Truthy(resp.error)
    THEN [req EXCEPT !.state = "Rejected", !.resp = resp,
              !.path = Append(req.path, "Rejected"),
              !.rejection = error(401, undefined)]
    ELSE [req EXCEPT !.state = "Succeeded", !.resp = resp,
              !.path = Append(req.path, "Succeeded"),
              !.context = Obj(("supabase" :> req.supabase) @@
                              ("user" :> resp.data.user))]

\* `anon_supabase`: the handler after the await
anon_supabase_continuation(req, resp) ==
    IF resp.settled = "rejected"
    THEN [req EXCEPT !.state = "Thrown", !.resp = resp,
              !.path = Append(req.path, "Thrown")]
    ELSE [req EXCEPT !.state = "Succeeded", !.resp = resp,
              !.path = Append(req.path, "Succeeded"),
              !.context = Obj(("supabase" :> req.supabase) @@
                              ("user" :> resp.data.user))]

\* ------------------------------------------------------------ state machine
Init ==
    /\ env \in [EnvNames -> UNION {EnvValues(n) : n \in EnvNames}]
    /\ \A n \in EnvNames : env[n] \in EnvValues(n)
    /\ guard = NoGuard
    /\ requests = [r \in RequestIds |-> IdleRequest]

\* process.env[name] = v, by the host at any time
SetEnv(name, v) ==
    /\ env[name] # v
    /\ env' = [env EXCEPT ![name] = v]
    /\ UNCHANGED <<guard, requests>>

\* the call supabase({supabase_url, supabase_anon_key, options})
supabase(supabase_url, supabase_anon_key, options) ==
    /\ guard = NoGuard
    /\ guard' = [kind |-> "supabase",
                 args |-> [supabase_url |-> supabase_url,
                           supabase_anon_key |-> supabase_anon_key,
                           options |-> options],
                 supabase_url |-> DefaultParam(supabase_url, env["SUPABASE_URL"]),
                 supabase_anon_key |->
                     DefaultParam(supabase_anon_key, env["SUPABASE_ANON_KEY"]),
                 options |-> options]
    /\ UNCHANGED <<env, requests>>

\* the call anon_supabase({supabase_url, supabase_anon_key, options})
anon_supabase(supabase_url, supabase_anon_key, options) ==
    /\ guard = NoGuard
    /\ guard' = [kind |-> "anon_supabase",
                 args |-> [supabase_url |-> supabase_url,
                           supabase_anon_key |-> supabase_anon_key,
                           options |-> options],
                 supabase_url |-> DefaultParam(supabase_url, env["SUPABASE_URL"]),
                 supabase_anon_key |->
                     DefaultParam(supabase_anon_key, env["SUPABASE_ANON_KEY"]),
                 options |-> options]
    /\ UNCHANGED <<env, requests>>

\* requests arrive in the order of their ids
NextRequest(r) ==
    /\ requests[r].state = "Idle"
    /\ \A q \in RequestIds : q < r => requests[q].state # "Idle"

\* variant of supabase_resolve: the handler writes the header into the caller's
\* options object, `options.global.headers = { Authorization }`, instead of
\* into a new object
supabase_resolve_writes_options(r, Authorization) ==
    /\ guard.kind = "supabase"
    /\ NextRequest(r)
    /\ requests' = [requests EXCEPT ![r] = supabase_handler(guard, Authorization)]
    /\ guard' = IF requests'[r].supabase # undefined
                THEN [guard EXCEPT !.options = requests'[r].supabase.options]
                ELSE guard
    /\ UNCHANGED env

\* a request with header value Authorization reaches the `supabase` guard
supabase_resolve(r, Authorization) ==
    /\ guard.kind = "supabase"
    /\ NextRequest(r)
    /\ requests' = [requests EXCEPT ![r] = supabase_handler(guard, Authorization)]
    /\ UNCHANGED <<env, guard>>

\* variant of supabase_resume: the handlers resume one at a time, in the
\* order in which the requests arrived
supabase_resume_serialized(r) ==
    /\ guard.kind = "supabase"
    /\ requests[r].state = "ValidatingIdentity"
    /\ \A q \in RequestIds : q < r => requests[q].state # "ValidatingIdentity"
    /\ \E resp \in getUser(requests[r].supabase) :
           requests' = [requests EXCEPT
                            ![r] = supabase_continuation(requests[r], resp)]
    /\ UNCHANGED <<env, guard>>

\* the identity lookup of request r settles and the `supabase` handler resumes
supabase_resume(r) ==
    /\ guard.kind = "supabase"
    /\ requests[r].state = "ValidatingIdentity"
    /\ \E resp \in getUser(requests[r].supabase) :
           requests' = [requests EXCEPT
                            ![r] = supabase_continuation(requests[r], resp)]
    /\ UNCHANGED <<env, guard>>

\* a request with header value Authorization reaches the `anon_supabase` guard
anon_supabase_resolve(r, Authorization) ==
    /\ guard.kind = "anon_supabase"
    /\ NextRequest(r)
    /\ requests' = [requests EXCEPT
                        ![r] = anon_supabase_handler(guard, Authorization)]
    /\ UNCHANGED <<env, guard>>

\* the identity lookup of request r settles and the `anon_supabase` handler
\* resumes
anon_supabase_resume(r) ==
    /\ guard.kind = "anon_supabase"
    /\ requests[r].state = "ValidatingIdentity"
    /\ \E resp \in getUser(requests[r].supabase) :
           requests' = [requests EXCEPT
                            ![r] = anon_supabase_continuation(requests[r], resp)]
    /\ UNCHANGED <<env, guard>>

Next ==
    \/ \E n \in EnvNames : \E v \in EnvValues(n) : SetEnv(n, v)
    \/ \E u \in UrlArgs, k \in KeyArgs, o \in OptionsArgs : supabase(u, k, o)
    \/ \E u \in UrlArgs, k \in KeyArgs, o \in OptionsArgs : anon_supabase(u, k, o)
    \/ \E r \in RequestIds, a \in AuthorizationHeaders : supabase_resolve(r, a)
    \/ \E r \in RequestIds : supabase_resume(r)
    \/ \E r \in RequestIds, a \in AuthorizationHeaders : anon_supabase_resolve(r, a)
    \/ \E r \in RequestIds : anon_supabase_resume(r)

Spec == Init /\ [][Next]_vars

\* the backend settles every lookup: a handler suspended at its await is
\* eventually resumed
FairSpec ==
    /\ Spec
    /\ \A r \in RequestIds :
           WF_vars(supabase_resume(r)) /\ WF_vars(anon_supabase_resume(r))

\* ============================================================== properties
Handled(r) == requests[r].state # "Idle"

\* the guard's endpoint and access key are both resolved
ConfigResolved ==
    /\ guard # NoGuard
    /\ Truthy(guard.supabase_url)
    /\ Truthy(guard.supabase_anon_key)

\* the lookup of request r has been answered with a UserResponse
Answered(r) ==
    /\ requests[r].resp # undefined
    /\ requests[r].resp.settled = "fulfilled"

\* C1: on the strict guard a request is Succeeded (or has a context) only
\* when the lookup made by its own client, which carries the request's own
\* Authorization value, was answered without error; the identity exposed is
\* the user of that answer and is never null.
C1_StrictSuccessOnlyOnValidLookup ==
    \A r \in RequestIds :
        (guard.kind = "supabase"
         /\ (requests[r].state = "Succeeded" \/ requests[r].context # undefined))
        => /\ requests[r].state = "Succeeded"
           /\ requests[r].lookups = 1
           /\ ClientAuthorization(requests[r].supabase) = requests[r].Authorization
           /\ requests[r].resp \in getUser(requests[r].supabase)
           /\ requests[r].resp.settled = "fulfilled"
           /\ ~Truthy(requests[r].resp.error)
           /\ Get(requests[r].context, "user") = requests[r].resp.data.user
           /\ Get(requests[r].context, "user") = UserOf(requests[r].Authorization)
           /\ Get(requests[r].context, "user") # null
           /\ Get(requests[r].context, "supabase") = requests[r].supabase

\* a strict request has succeeded
C1_Witness ==
    \E r \in RequestIds :
        /\ guard.kind = "supabase"
        /\ requests[r].state = "Succeeded"
        /\ Get(requests[r].context, "user") = UserOf(S("Bearer A"))

\* C2: on the strict guard, with endpoint, access key and Authorization
\* header present, a lookup answered with an error ends in Rejected with
\* status 401 and no message, and no context is attached.
C2_StrictRejectsOnLookupError ==
    \A r \in RequestIds :
        (/\ guard.kind = "supabase"
         /\ ConfigResolved
         /\ Handled(r)
         /\ Truthy(requests[r].Authorization)
         /\ Answered(r)
         /\ Truthy(requests[r].resp.error))
        => /\ requests[r].state = "Rejected"
           /\ requests[r].rejection = error(401, undefined)
           /\ requests[r].context = undefined

\* a strict request whose lookup was answered with an error
C2_Witness ==
    \E r \in RequestIds :
        /\ guard.kind = "supabase"
        /\ Answered(r)
        /\ requests[r].resp.error = AuthError
        /\ requests[r].rejection = error(401, undefined)

\* C3: on both guards, with endpoint and access key resolved, a request
\* without Authorization header is Rejected with 401 "Authorization header
\* is missing"; no client is constructed, no lookup is made and no context
\* is attached.
C3_MissingHeaderRejected ==
    \A r \in RequestIds :
        (/\ Handled(r)
         /\ ConfigResolved
         /\ requests[r].Authorization = null)
        => /\ requests[r].state = "Rejected"
           /\ requests[r].rejection =
                  error(401, S("Authorization header is missing"))
           /\ requests[r].supabase = undefined
           /\ requests[r].lookups = 0
           /\ requests[r].resp = undefined
           /\ requests[r].context = undefined

\* the permissive guard has rejected a request that carries no header
C3_Witness ==
    \E r \in RequestIds :
        /\ guard.kind = "anon_supabase"
        /\ ConfigResolved
        /\ requests[r].Authorization = null
        /\ requests[r].state = "Rejected"

\* C4: on both guards the first failing check decides: an unresolved
\* endpoint gives 500 "SUPABASE_URL is not set" whatever the access key and
\* the header are; a resolved endpoint with an unresolved access key gives
\* 500 "SUPABASE_ANON_KEY is not set" whatever the header is; in both cases
\* no client is constructed and no lookup is made.
C4_FirstFailingCheckDecides ==
    \A r \in RequestIds :
        Handled(r) =>
            /\ ~Truthy(guard.supabase_url)
               => /\ requests[r].state = "Rejected"
                  /\ requests[r].rejection = error(500, S("SUPABASE_URL is not set"))
                  /\ requests[r].supabase = undefined
                  /\ requests[r].lookups = 0
                  /\ requests[r].resp = undefined
            /\ (Truthy(guard.supabase_url) /\ ~Truthy(guard.supabase_anon_key))
               => /\ requests[r].state = "Rejected"
                  /\ requests[r].rejection =
                         error(500, S("SUPABASE_ANON_KEY is not set"))
                  /\ requests[r].supabase = undefined
                  /\ requests[r].lookups = 0
                  /\ requests[r].resp = undefined

\* endpoint and access key are both unresolved, the request carries a
\* credential, and the rejection is the endpoint's
C4_Witness ==
    \E r \in RequestIds :
        /\ guard.kind = "supabase"
        /\ guard.supabase_url = undefined
        /\ guard.supabase_anon_key = undefined
        /\ requests[r].Authorization = S("Bearer A")
        /\ requests[r].rejection = error(500, S("SUPABASE_URL is not set"))

OptionsAuthorization(options) ==
    OptGet(OptGet(OptGet(options, "global"), "headers"), "Authorization")

\* C6: on both guards every constructed client carries the Authorization
\* value of its own request, and not the one of options.global.headers.
C6_RequestAuthorizationOverrides ==
    \A r \in RequestIds :
        requests[r].supabase # undefined
        => /\ ClientAuthorization(requests[r].supabase) = requests[r].Authorization
           /\ Truthy(requests[r].Authorization)
           /\ OptionsAuthorization(guard.options) # requests[r].Authorization
              => ClientAuthorization(requests[r].supabase)
                     # OptionsAuthorization(guard.options)

\* a client was constructed by a guard whose options carry an Authorization
C6_Witness ==
    \E r \in RequestIds :
        /\ guard # NoGuard
        /\ OptionsAuthorization(guard.options) = CtorAuthorization
        /\ requests[r].supabase # undefined
        /\ ClientAuthorization(requests[r].supabase) = S("Bearer B")

\* the headers object the caller put in options.global.headers
OptionsHeaders(options) == OptGet(OptGet(options, "global"), "headers")

\* the headers object handed to the client factory
ClientHeaders(client) == Get(Get(client.options, "global"), "headers")

\* C7: on both guards every header other than Authorization of the caller's
\* options.global.headers is in the headers handed to the client factory,
\* with its construction-time value.
C7_CallerHeadersPreserved ==
    \A r \in RequestIds :
        requests[r].supabase # undefined
        => \A k \in DOMAIN Spread(OptionsHeaders(guard.options)) \ {"Authorization"} :
               Get(ClientHeaders(requests[r].supabase), k)
                   = Get(OptionsHeaders(guard.options), k)

\* C8: on both guards every top-level option other than `global` and every
\* option of `global` other than `headers` reaches the client factory with
\* the caller's value, and the factory's options have no other key than the
\* caller's, `global` and `global.headers`.
C8_OtherOptionsUnchanged ==
    \A r \in RequestIds :
        requests[r].supabase # undefined
        => LET caller == guard.options
               passed == requests[r].supabase.options
           IN  /\ DOMAIN Spread(passed) = DOMAIN Spread(caller) \cup {"global"}
               /\ \A k \in DOMAIN Spread(caller) \ {"global"} :
                      Get(passed, k) = Get(caller, k)
               /\ DOMAIN Spread(Get(passed, "global"))
                      = DOMAIN Spread(OptGet(caller, "global")) \cup {"headers"}
               /\ \A k \in DOMAIN Spread(OptGet(caller, "global")) \ {"headers"} :
                      Get(Get(passed, "global"), k) = Get(OptGet(caller, "global"), k)

\* a client was constructed from options with a top-level `db`, a
\* `global.fetch` and caller headers
C8_Witness ==
    \E r \in RequestIds :
        /\ guard # NoGuard
        /\ Get(guard.options, "db") = S("db-cfg")
        /\ Get(OptGet(guard.options, "global"), "fetch") = S("fetch-fn")
        /\ requests[r].supabase # undefined
        /\ Get(Get(requests[r].supabase.options, "global"), "fetch") = S("fetch-fn")

\* a step that constructs the guard
ConstructStep == guard = NoGuard /\ guard' # NoGuard

\* a step in which the handler runs for request r up to its await or return
ResolveStep(r) == requests[r].state = "Idle" /\ requests'[r].state # "Idle"

ConfigRejections ==
    { error(500, S("SUPABASE_URL is not set")),
      error(500, S("SUPABASE_ANON_KEY is not set")) }

\* C9: on both guards a supplied construction argument is the endpoint /
\* access key of the guard, and the environment value (as it is when the
\* guard is constructed) is used only for an omitted argument; every client
\* is built with the guard's endpoint and access key; constructing is
\* possible with any arguments and environment and rejects nothing: the 500
\* appears only in a step that handles a request.
C9_ConfigPrecedence ==
    /\ [](guard = NoGuard =>
             \A u \in UrlArgs, k \in KeyArgs, o \in OptionsArgs :
                 /\ ENABLED supabase(u, k, o)
                 /\ ENABLED anon_supabase(u, k, o))
    /\ [](\A r \in RequestIds :
             requests[r].supabase # undefined
             => /\ requests[r].supabase.supabase_url = guard.supabase_url
                /\ requests[r].supabase.supabase_anon_key = guard.supabase_anon_key)
    /\ [][ConstructStep =>
             /\ guard'.supabase_url =
                    IF guard'.args.supabase_url # undefined
                    THEN guard'.args.supabase_url ELSE env["SUPABASE_URL"]
             /\ guard'.supabase_anon_key =
                    IF guard'.args.supabase_anon_key # undefined
                    THEN guard'.args.supabase_anon_key ELSE env["SUPABASE_ANON_KEY"]
             /\ requests' = requests]_vars
    /\ [][\A r \in RequestIds :
             (requests'[r].rejection \in ConfigRejections
              /\ requests[r].rejection \notin ConfigRejections)
             => ResolveStep(r)]_vars

\* a guard constructed with both arguments while the environment set both
\* variables has built a client with the arguments
C9_Witness ==
    \E r \in RequestIds :
        /\ guard # NoGuard
        /\ guard.args.supabase_url = S("https://x.test")
        /\ guard.args.supabase_anon_key = S("anon-key")
        /\ env["SUPABASE_URL"] = S("https://env1.test")
        /\ env["SUPABASE_ANON_KEY"] = S("env-anon-key")
        /\ requests[r].supabase # undefined
        /\ requests[r].supabase.supabase_url = S("https://x.test")
        /\ requests[r].supabase.supabase_anon_key = S("anon-key")

\* the outcome of the configuration checks of a request handled with
\* endpoint url and access key key
ConfigOutcome(req, url, key) ==
    /\ ~Truthy(url) => req.rejection = error(500, S("SUPABASE_URL is not set"))
    /\ (Truthy(url) /\ ~Truthy(key))
       => req.rejection = error(500, S("SUPABASE_ANON_KEY is not set"))
    /\ (Truthy(url) /\ Truthy(key))
       => /\ req.rejection \notin ConfigRejections
          /\ req.supabase # undefined
             => /\ req.supabase.supabase_url = url
                /\ req.supabase.supabase_anon_key = key

\* C10 as stated: an omitted endpoint / access key is read from the
\* environment when a request is handled, so the request sees the value the
\* environment has then.
C10_EnvReadPerRequest ==
    [][\A r \in RequestIds :
          ResolveStep(r)
          => ConfigOutcome(requests'[r],
                 IF guard.args.supabase_url = undefined
                 THEN env["SUPABASE_URL"] ELSE guard.args.supabase_url,
                 IF guard.args.supabase_anon_key = undefined
                 THEN env["SUPABASE_ANON_KEY"] ELSE guard.args.supabase_anon_key)]_vars

\* C10 amended: an omitted endpoint / access key is read from the
\* environment once, when the guard is constructed; no later step changes
\* the guard's values, and every request is checked against them whatever
\* the environment holds when it is handled.
C10_EnvReadAtConstruction ==
    /\ [][ConstructStep =>
             /\ guard'.args.supabase_url = undefined
                => guard'.supabase_url = env["SUPABASE_URL"]
             /\ guard'.args.supabase_anon_key = undefined
                => guard'.supabase_anon_key = env["SUPABASE_ANON_KEY"]]_vars
    /\ [][guard # NoGuard => guard' = guard]_vars
    /\ [][\A r \in RequestIds :
             ResolveStep(r)
             => ConfigOutcome(requests'[r], guard.supabase_url,
                              guard.supabase_anon_key)]_vars

\* the guard was constructed without endpoint while SUPABASE_URL was unset,
\* the variable is set now, and a request is rejected for the endpoint
C10_Witness ==
    \E r \in RequestIds :
        /\ guard # NoGuard
        /\ guard.args.supabase_url = undefined
        /\ guard.supabase_url = undefined
        /\ Truthy(guard.supabase_anon_key)
        /\ Truthy(env["SUPABASE_URL"])
        /\ requests[r].rejection = error(500, S("SUPABASE_URL is not set"))

\* C11: in every interleaving of the requests of one guard, a request's
\* client carries the request's own Authorization value, its answer is an
\* answer to the lookup of its own client, its context holds its own client
\* and the user of its own answer, and neither is the client or the user of
\* a request with another Authorization value.
C11_RequestIsolation ==
    \A r \in RequestIds :
        /\ requests[r].supabase # undefined
           => ClientAuthorization(requests[r].supabase) = requests[r].Authorization
        /\ requests[r].resp # undefined
           => requests[r].resp \in getUser(requests[r].supabase)
        /\ requests[r].context # undefined
           => /\ Get(requests[r].context, "supabase") = requests[r].supabase
              /\ Get(requests[r].context, "user") = requests[r].resp.data.user
              /\ \A q \in RequestIds :
                     (/\ q # r
                      /\ Truthy(requests[q].Authorization)
                      /\ requests[q].Authorization # requests[r].Authorization)
                     => /\ Get(requests[r].context, "supabase") # requests[q].supabase
                        /\ Get(requests[r].context, "user")
                               # UserOf(requests[q].Authorization)
                        /\ (/\ requests[q].resp # undefined
                            /\ Truthy(Get(requests[r].context, "user")))
                           => Get(requests[r].context, "user")
                                  # requests[q].resp.data.user

\* the second request has succeeded with its own user while the first one,
\* with another credential, is still suspended at its lookup
C11_Witness ==
    /\ requests[1].state = "ValidatingIdentity"
    /\ requests[1].Authorization = S("Bearer A")
    /\ requests[2].state = "Succeeded"
    /\ requests[2].Authorization = S("Bearer B")
    /\ Get(requests[2].context, "user") = UserOf(S("Bearer B"))

\* request r has passed the configuration checks and the header check
PassedChecks(r) ==
    /\ Handled(r)
    /\ ConfigResolved
    /\ Truthy(requests[r].Authorization)

\* C12: every request that passes the configuration and header checks has a
\* client of its own construction and one lookup of its own, whatever the
\* earlier requests were; on the strict guard a request whose lookup is
\* answered with an error is rejected with 401 and gets no context, also
\* when an earlier request with the same credential has succeeded.
C12_NoValidationCaching ==
    /\ [](\A r \in RequestIds :
             PassedChecks(r)
             => /\ requests[r].lookups = 1
                /\ requests[r].supabase =
                       createClient(guard.supabase_url, guard.supabase_anon_key,
                                    ClientOptions(guard.options,
                                                  requests[r].Authorization))
                /\ (guard.kind = "supabase" /\ Answered(r)
                    /\ Truthy(requests[r].resp.error))
                   => /\ requests[r].state = "Rejected"
                      /\ requests[r].rejection = error(401, undefined)
                      /\ requests[r].context = undefined)
    /\ [][\A r \in RequestIds :
             (ResolveStep(r) /\ Truthy(guard.supabase_url)
              /\ Truthy(guard.supabase_anon_key)
              /\ Truthy(requests'[r].Authorization))
             => /\ requests'[r].state = "ValidatingIdentity"
                /\ requests'[r].lookups = 1
                /\ requests'[r].context = undefined]_vars

\* the strict guard accepted a credential in the first request and rejected
\* the same credential in the second one
C12_Witness ==
    /\ guard.kind = "supabase"
    /\ requests[1].state = "Succeeded"
    /\ requests[1].Authorization = S("Bearer A")
    /\ requests[2].Authorization = S("Bearer A")
    /\ requests[2].state = "Rejected"
    /\ requests[2].rejection = error(401, undefined)
    /\ requests[2].lookups = 1

\* the lookup of request r has settled with a failure: an answer with an
\* error, or a rejected promise
LookupFailed(r) ==
    /\ requests[r].resp # undefined
    /\ \/ requests[r].resp.settled = "rejected"
       \/ Truthy(requests[r].resp.error)

C14_PermissiveRejectsInvalidToken ==
    \A r \in RequestIds :
        (/\ guard.kind = "anon_supabase"
         /\ ConfigResolved
         /\ Handled(r)
         /\ \/ ~Truthy(requests[r].Authorization)
            \/ Answered(r) /\ Truthy(requests[r].resp.error))
        => /\ requests[r].state = "Rejected"
           /\ requests[r].rejection.status = 401
           /\ requests[r].context = undefined

\* the rejections of the checks that precede the lookup
PreLookupRejections ==
    ConfigRejections \cup {error(401, S("Authorization header is missing"))}

\* C15: on both guards a handled request has made exactly one lookup when
\* endpoint, access key and Authorization header are all present and none
\* otherwise; a request rejected by a configuration or header check has
\* made none; the number of lookups of a request never changes once its
\* handler has reached the await, whatever the lookup returns.
C15_AtMostOneLookup ==
    /\ [](\A r \in RequestIds :
             /\ requests[r].lookups \in {0, 1}
             /\ Handled(r)
                => (requests[r].lookups = 1
                       <=> /\ Truthy(guard.supabase_url)
                           /\ Truthy(guard.supabase_anon_key)
                           /\ Truthy(requests[r].Authorization))
             /\ requests[r].rejection \in PreLookupRejections
                => requests[r].lookups = 0 /\ requests[r].resp = undefined
             /\ ~Handled(r) => requests[r].lookups = 0)
    /\ [][\A r \in RequestIds :
             Handled(r) => requests'[r].lookups = requests[r].lookups]_vars

\* a request whose lookup was answered with an error has ended with the one
\* lookup it made
C15_Witness ==
    \E r \in RequestIds :
        /\ Answered(r)
        /\ requests[r].resp.error = AuthError
        /\ requests[r].state \in {"Rejected", "Succeeded"}
        /\ requests[r].lookups = 1

\* the position that follows a position when its check does not fail
NextPosition(p) ==
    CASE p = "CheckingConfig" -> "CheckingHeader"
      [] p = "CheckingHeader" -> "BuildingClient"
      [] p = "BuildingClient" -> "ValidatingIdentity"
      [] p = "ValidatingIdentity" -> "Succeeded"
      [] OTHER -> "none"

Positions ==
    {"CheckingConfig", "CheckingHeader", "BuildingClient", "ValidatingIdentity"}

\* the rejection a request gets when the check at position p fails
RejectionAt(p, r) ==
    CASE p = "CheckingConfig" ->
             IF ~Truthy(guard.supabase_url)
             THEN error(500, S("SUPABASE_URL is not set"))
             ELSE error(500, S("SUPABASE_ANON_KEY is not set"))
      [] p = "CheckingHeader" -> error(401, S("Authorization header is missing"))
      [] p = "ValidatingIdentity" -> error(401, undefined)
      [] OTHER -> undefined

\* the path of request r is a run of the state machine whose terminal
\* states are Succeeded, Rejected and those of exits
PathOfMachine(r, exits) ==
    LET p == requests[r].path
    IN  /\ Handled(r) <=> p # <<>>
        /\ p # <<>> => p[1] = "CheckingConfig" /\ requests[r].state = p[Len(p)]
        /\ \A i \in 1..Len(p) :
               p[i] \in Positions \cup {"Succeeded", "Rejected"} \cup exits
        /\ \A i \in 1..(Len(p) - 1) :
               /\ p[i] \in Positions
               /\ \/ p[i + 1] = NextPosition(p[i])
                  \/ p[i + 1] = "Rejected" /\ p[i] # "BuildingClient"
                  \/ p[i + 1] \in exits /\ p[i] = "ValidatingIdentity"
        /\ (p # <<>> /\ p[Len(p)] = "Rejected")
           => requests[r].rejection = RejectionAt(p[Len(p) - 1], r)
        /\ (p # <<>> /\ p[Len(p)] # "Rejected")
           => requests[r].rejection = undefined

\* a step keeps the positions request r has been at and leaves a request
\* that has ended as it is
PathStep(r, exits) ==
    /\ Len(requests'[r].path) >= Len(requests[r].path)
    /\ SubSeq(requests'[r].path, 1, Len(requests[r].path)) = requests[r].path
    /\ requests[r].state \in {"Succeeded", "Rejected"} \cup exits
       => requests'[r] = requests[r]

Ended(r) == requests[r].state \in {"Succeeded", "Rejected", "Thrown"}

C18_ConfigurationUnchanged ==
    /\ [](guard # NoGuard
          => /\ guard.options = guard.args.options
             /\ guard.options \in OptionsArgs
             /\ \A r \in RequestIds :
                    requests[r].supabase # undefined
                    => /\ ClientAuthorization(requests[r].supabase)
                              = requests[r].Authorization
                       /\ OptionsAuthorization(guard.options)
                              \in {undefined, CtorAuthorization}
                       /\ requests[r].supabase.options # guard.options)
    /\ [][guard # NoGuard
          => /\ guard'.supabase_url = guard.supabase_url
             /\ guard'.supabase_anon_key = guard.supabase_anon_key
             /\ guard'.options = guard.options
             /\ OptGet(guard'.options, "global") = OptGet(guard.options, "global")
             /\ OptionsHeaders(guard'.options) = OptionsHeaders(guard.options)
             /\ guard'.kind = guard.kind]_vars

\* a guard constructed with caller headers has handled a request that
\* succeeded and one that was rejected, and its options are the caller's
C18_Witness ==
    /\ guard # NoGuard
    /\ OptionsHeaders(guard.options)
           = Obj(("Authorization" :> CtorAuthorization) @@ ("X-Custom" :> S("custom")))
    /\ \E r \in RequestIds : requests[r].state = "Succeeded"
    /\ \E r \in RequestIds : requests[r].state = "Rejected"

\* request r as the handler of the `supabase` guard leaves it at the await
\* (or at an early return), for the header value of r
StrictHandled(r) == supabase_handler(guard, requests[r].Authorization)

\* the same for the handler of the `anon_supabase` guard
PermissiveHandled(r) == anon_supabase_handler(guard, requests[r].Authorization)

C20_EmptyIsAbsent ==
    /\ [](\A r \in RequestIds :
             Handled(r)
             => /\ (ConfigResolved /\ requests[r].Authorization = S(""))
                   => /\ requests[r].state = "Rejected"
                      /\ requests[r].rejection =
                             error(401, S("Authorization header is missing"))
                      /\ requests[r].supabase = undefined
                      /\ requests[r].lookups = 0
                /\ guard.args.supabase_url = S("")
                   => /\ requests[r].state = "Rejected"
                      /\ requests[r].rejection =
                             error(500, S("SUPABASE_URL is not set"))
                      /\ requests[r].supabase = undefined
                      /\ requests[r].lookups = 0
                /\ (Truthy(guard.supabase_url) /\ guard.args.supabase_anon_key = S(""))
                   => /\ requests[r].state = "Rejected"
                      /\ requests[r].rejection =
                             error(500, S("SUPABASE_ANON_KEY is not set"))
                      /\ requests[r].supabase = undefined
                      /\ requests[r].lookups = 0)
    /\ [][ConstructStep
          => /\ guard'.args.supabase_url = S("") => guard'.supabase_url = S("")
             /\ guard'.args.supabase_anon_key = S("")
                => guard'.supabase_anon_key = S("")]_vars

\* a guard constructed with the empty string as endpoint has rejected, for
\* the endpoint, a request that carries a credential, while SUPABASE_URL is set
C20_Witness ==
    /\ guard # NoGuard
    /\ guard.args.supabase_url = S("")
    /\ Truthy(env["SUPABASE_URL"])
    /\ \E r \in RequestIds :
           /\ requests[r].Authorization = S("Bearer A")
           /\ requests[r].rejection = error(500, S("SUPABASE_URL is not set"))
====
